---- MODULE Spec2Model ----
(***************************************************************************)
(* StartupDataDeck: two Streamlit dashboards over investments_VC.csv.      *)
(*                                                                         *)
(*   app.py           load_data (encoding loop, schema check, cleaning),   *)
(*                    sidebar multiselects + funding slider, isin/between  *)
(*                    filter, eight group-by charts.                       *)
(*   vc_dashboard.py  load_data (funding/date coercion), selectbox + year  *)
(*                    slider filter, key metrics, charts, CSV export.      *)
(*                                                                         *)
(* A state is one browser session of one of the two scripts: the file on   *)
(* disk, the st.cache_data memo of load_data, and the position of the      *)
(* current script run together with what the run has computed so far.      *)
(*                                                                         *)
(* Text is modelled as sequences of one-character strings so that strip,   *)
(* lower, replace, split, to_numeric and to_csv are computed, not assumed. *)
(* A cell of a DataFrame is a record [k, s, n, l]:                         *)
(*    k = "null"  NaN / None / NaT                                         *)
(*    k = "str"   a Python str, s its characters                           *)
(*    k = "num"   a float64/int64, n its value                             *)
(*    k = "date"  a Timestamp, n = year*100 + month                        *)
(*    k = "list"  a Python list of str, l its items                        *)
(***************************************************************************)
EXTENDS Integers, Sequences, FiniteSets, TLC

\* ------------------------------------------------------------------ bounds

\* Longest raw table (data rows of investments_VC.csv) the sessions start from.
MaxRows == 3
\* How many times the body of load_data may run in one process session.
MaxLoads == 2
\* How many times the downloaded export may replace investments_VC.csv.
MaxReloads == 1

\* ------------------------------------------------------------------- cells

Null == [k |-> "null", s |-> <<>>, n |-> 0, l |-> <<>>]
Str(chars) == [k |-> "str", s |-> chars, n |-> 0, l |-> <<>>]
Num(v) == [k |-> "num", s |-> <<>>, n |-> v, l |-> <<>>]
Date(y, m) == [k |-> "date", s |-> <<>>, n |-> y * 100 + m, l |-> <<>>]
List(items) == [k |-> "list", s |-> <<>>, n |-> 0, l |-> items]

IsNull(c) == c.k = "null"
IsStr(c) == c.k = "str"
IsNum(c) == c.k = "num"

\* ------------------------------------------------------------ text helpers

Range(f) == {f[i] : i \in DOMAIN f}

RECURSIVE LStrip(_)
\* str.lstrip(): drop leading blanks.
LStrip(s) == IF s # <<>> /\ Head(s) = " " THEN LStrip(Tail(s)) ELSE s

RECURSIVE RStrip(_)
\* str.rstrip(): drop trailing blanks.
RStrip(s) ==
  IF s # <<>> /\ s[Len(s)] = " " THEN RStrip(SubSeq(s, 1, Len(s) - 1)) ELSE s

\* str.strip()
StripChars(s) == RStrip(LStrip(s))

UpperLetters ==
  << "A", "B", "C", "D", "E", "F", "G", "H", "I", "J", "K", "L", "M",
     "N", "O", "P", "Q", "R", "S", "T", "U", "V", "W", "X", "Y", "Z" >>

LowerLetters ==
  << "a", "b", "c", "d", "e", "f", "g", "h", "i", "j", "k", "l", "m",
     "n", "o", "p", "q", "r", "s", "t", "u", "v", "w", "x", "y", "z" >>

LowerChar(c) ==
  IF c \in Range(UpperLetters)
    THEN LowerLetters[CHOOSE i \in DOMAIN UpperLetters : UpperLetters[i] = c]
    ELSE c

\* str.lower()
LowerChars(s) == [i \in DOMAIN s |-> LowerChar(s[i])]

\* re.sub('[<set>]', '', s) / str.replace(ch, '') for one-character patterns.
RemoveChars(s, set) == SelectSeq(s, LAMBDA c : c \notin set)

DigitChars == << "0", "1", "2", "3", "4", "5", "6", "7", "8", "9" >>

IsDigit(c) == c \in Range(DigitChars)

DigitVal(c) == (CHOOSE i \in DOMAIN DigitChars : DigitChars[i] = c) - 1

AllDigits(s) == s # <<>> /\ \A i \in DOMAIN s : IsDigit(s[i])

RECURSIVE DigitsVal(_)
DigitsVal(s) ==
  IF s = <<>> THEN 0
  ELSE 10 * DigitsVal(SubSeq(s, 1, Len(s) - 1)) + DigitVal(s[Len(s)])

RECURSIVE NatChars(_)
\* repr of a non-negative integer
NatChars(v) ==
  IF v < 10 THEN << DigitChars[v + 1] >>
  ELSE NatChars(v \div 10) \o << DigitChars[(v % 10) + 1] >>

\* Position of the first "." in s, 0 when there is none.
DotAt(s) ==
  IF \E i \in DOMAIN s : s[i] = "."
    THEN CHOOSE i \in DOMAIN s : s[i] = "." /\ \A j \in 1..(i - 1) : s[j] # "."
    ELSE 0

\* The text is a plain decimal number: digits, or digits "." zeros.  (The
\* model's numbers are whole, so a fractional part is a run of zeros.)
IsNumberText(s) ==
  \/ AllDigits(s)
  \/ /\ DotAt(s) > 1
     /\ AllDigits(SubSeq(s, 1, DotAt(s) - 1))
     /\ \A i \in (DotAt(s) + 1)..Len(s) : s[i] = "0"

NumberTextVal(s) ==
  IF DotAt(s) = 0 THEN DigitsVal(s) ELSE DigitsVal(SubSeq(s, 1, DotAt(s) - 1))

\* repr(float(v)) as to_csv writes a float64 cell: "50.0"
FloatChars(v) == NatChars(v) \o << ".", "0" >>

RECURSIVE SplitOn(_, _)
\* str.split(sep) for a one-character separator: always at least one piece.
SplitOn(s, sep) ==
  IF \E i \in DOMAIN s : s[i] = sep
    THEN LET p == CHOOSE i \in DOMAIN s :
                    s[i] = sep /\ \A j \in 1..(i - 1) : s[j] # sep
         IN << SubSeq(s, 1, p - 1) >> \o SplitOn(SubSeq(s, p + 1, Len(s)), sep)
    ELSE << s >>

\* ----------------------------------------------------------------- columns

\* app.py line 35
RequiredColumns == << "name", "funding_total_usd", "market", "country_code", "status" >>

\* vc_dashboard.py line 18
DateCols == << "founded_at", "first_funding_at", "last_funding_at" >>

\* vc_dashboard.py lines 151-153
RoundTypes ==
  << "seed", "venture", "equity_crowdfunding", "undisclosed", "convertible_note",
     "debt_financing", "angel", "grant", "private_equity", "post_ipo_equity" >>

\* The header of a complete investments_VC.csv.
AllColumns ==
  Range(RequiredColumns) \cup Range(DateCols) \cup Range(RoundTypes)
    \cup {"category_list", "region"}

\* The encodings load_data of app.py tries, in order (line 28).
Encodings == << "utf-8", "latin1", "iso-8859-1" >>

\* ------------------------------------------------------------- sample data

USA == << "U", "S", "A" >>
CHN == << "C", "H", "N" >>
GBR == << "G", "B", "R" >>
Unknown == << "U", "n", "k", "n", "o", "w", "n" >>
Operating == << "o", "p", "e", "r", "a", "t", "i", "n", "g" >>
Closed == << "c", "l", "o", "s", "e", "d" >>

\* One line of the file: the text of each field, Null for an empty field.
RawRow(name, funding, market, country, status, region, cats, founded, seed) ==
  [c \in AllColumns |->
     CASE c = "name" -> name
       [] c = "funding_total_usd" -> funding
       [] c = "market" -> market
       [] c = "country_code" -> country
       [] c = "status" -> status
       [] c = "region" -> region
       [] c = "category_list" -> cats
       [] c = "founded_at" -> founded
       [] c = "seed" -> seed
       [] c \in {"first_funding_at", "last_funding_at"} -> Null
       [] OTHER -> Str(<< "0" >>)]

\* The lines the raw tables are built from: a currency-formatted amount, a
\* plain one, a thousands separator, an unparsable amount, missing name /
\* market / country / status / region / date, a zero amount.
SampleRows ==
  << RawRow(Str(<< "A", "c", "m", "e" >>), Str(<< "$", "1", ",", "0", "0", "0" >>),
            Str(<< " ", "B", "i", "o", " " >>), Str(USA), Str(Operating),
            Str(<< "S", "F" >>), Str(<< "|", "B", "i", "o", "|", " ", "H", " ", "|" >>),
            Str(<< "2", "0", "1", "0", "-", "0", "2" >>), Str(<< "5" >>)),
     RawRow(Str(<< "B", "e", "t", "a" >>), Str(<< "5", "0" >>),
            Str(<< "f", "i", "n" >>), Str(CHN), Str(Closed),
            Null, Null,
            Str(<< "2", "0", "1", "2", "-", "1", "1" >>), Str(<< "0" >>)),
     RawRow(Str(<< "C", "o" >>), Str(<< "1", ",", "0", "0", "0" >>),
            Str(<< "b", "i", "o" >>), Str(GBR), Str(<< " " >> \o Operating),
            Str(<< "L", "D", "N" >>), Str(<< "b", "i", "o" >>),
            Null, Str(<< "0" >>)),
     RawRow(Str(<< "D", "e", "l" >>), Str(<< " ", "-", " " >>),
            Str(<< "f", "i", "n" >>), Null, Null,
            Str(<< "S", "F" >>), Str(<< "f", "i", "n" >>),
            Str(<< "n", "/", "a" >>), Str(<< "0" >>)),
     RawRow(Null, Str(<< "7" >>),
            Null, Str(USA), Str(Closed),
            Null, Null,
            Str(<< "2", "0", "1", "2", "-", "1", "1" >>), Str(<< "7" >>)),
     RawRow(Str(<< "F", "o", "x" >>), Str(<< "0" >>),
            Str(<< "f", "i", "n" >>), Str(USA), Str(Closed),
            Str(<< "S", "F" >>), Str(<< "f", "i", "n", "|", "x" >>),
            Str(<< "2", "0", "1", "0", "-", "0", "2" >>), Str(<< "0" >>)) >>

\* All sequences over S of length at most n.
RECURSIVE SeqsUpTo(_, _)
SeqsUpTo(S, n) ==
  IF n = 0 THEN {<<>>}
  ELSE LET shorter == SeqsUpTo(S, n - 1)
       IN shorter \cup {Append(t, x) : t \in shorter, x \in S}

\* -------------------------------------------------------------- DataFrames

\* A DataFrame: its columns, each column's dtype and its rows in order.  A row
\* is a function from the columns to cells.
Frame(cols, dt, rows) == [cols |-> cols, dt |-> dt, rows |-> rows]

\* pd.DataFrame()
EmptyFrame == Frame({}, << >>, << >>)

\* df.empty: no rows or no columns.
IsEmpty(df) == df.rows = << >> \/ df.cols = {}

Column(df, c) == [i \in DOMAIN df.rows |-> df.rows[i][c]]

\* df[mask]: the rows whose mask entry is True, in their order.
RECURSIVE Take(_, _)
Take(rows, mask) ==
  IF rows = << >> THEN << >>
  ELSE (IF Head(mask) THEN << Head(rows) >> ELSE << >>) \o Take(Tail(rows), Tail(mask))

BoolIndex(df, mask) == Frame(df.cols, df.dt, Take(df.rows, mask))

\* df[c] = values
SetColumn(df, c, dtype, values) ==
  Frame(df.cols \cup {c},
        [d \in df.cols \cup {c} |-> IF d = c THEN dtype ELSE df.dt[d]],
        [i \in DOMAIN df.rows |->
           [d \in df.cols \cup {c} |-> IF d = c THEN values[i] ELSE df.rows[i][d]]])

\* ---------------------------------------------------------------- the file

\* investments_VC.csv: whether it exists, under which encodings its bytes
\* decode, its header and its lines.
File(exists, decodes, cols, rows) ==
  [exists |-> exists, decodes |-> decodes, cols |-> cols, rows |-> rows]

Restrict(row, cols) == [c \in cols |-> row[c]]

\* Header names as written in the file, and as df.columns.str.strip() leaves
\* them.
PaddedName(c) ==
  CASE c = "market" -> " market "
    [] c = "funding_total_usd" -> " funding_total_usd "
    [] OTHER -> c

StripName(h) ==
  CASE h = " market " -> "market"
    [] h = " funding_total_usd " -> "funding_total_usd"
    [] OTHER -> h

\* The same file with the blanks of PaddedName in its header.
PadHeader(file) ==
  LET padded == {PaddedName(c) : c \in file.cols}
  IN [file EXCEPT !.cols = padded,
                  !.rows = [i \in DOMAIN file.rows |->
                              [h \in padded |-> file.rows[i][StripName(h)]]]]

AllDecode == [e \in Range(Encodings) |-> TRUE]

\* Headers with required columns missing.
MissingChoices ==
  {{}} \cup {{c} : c \in Range(RequiredColumns)} \cup {{"market", "status"}}

FileInputs ==
  \* a well-formed UTF-8 file with any table of at most MaxRows lines
  {File(TRUE, AllDecode, AllColumns, t) : t \in SeqsUpTo(Range(SampleRows), MaxRows)}
  \cup
  \* any decoding outcome and any missing columns, over a short table
  {File(TRUE, d, AllColumns \ m, [i \in DOMAIN t |-> Restrict(t[i], AllColumns \ m)]) :
     d \in [Range(Encodings) -> BOOLEAN], m \in MissingChoices,
     t \in {<< >>, << SampleRows[1] >>, << SampleRows[3], SampleRows[2] >>}}
  \cup
  \* the header written with blanks around two names, as in the published file
  {PadHeader(File(TRUE, AllDecode, AllColumns, t)) :
     t \in {<< SampleRows[1] >>, << SampleRows[1], SampleRows[2], SampleRows[3] >>}}
  \cup
  \* no file
  {File(FALSE, AllDecode, {}, << >>)}

\* pd.read_csv's type inference: a column whose non-empty fields are all
\* numbers is numeric (empty fields NaN), a column with no field at all in a
\* non-empty table is float64 NaN, anything else is object.
InferDtype(rows, c) ==
  IF rows = << >> THEN "object"
  ELSE IF \A i \in DOMAIN rows : IsNull(rows[i][c]) \/ IsNumberText(rows[i][c].s)
    THEN "float64" ELSE "object"

ReadCell(cell, dtype) ==
  IF dtype = "float64" /\ IsStr(cell) THEN Num(NumberTextVal(cell.s)) ELSE cell

\* pd.read_csv on text that decoded.
ReadCsv(file) ==
  LET dt == [c \in file.cols |-> InferDtype(file.rows, c)]
  IN Frame(file.cols, dt,
           [i \in DOMAIN file.rows |-> [c \in file.cols |-> ReadCell(file.rows[i][c], dt[c])]])

\* -------------------------------------------------------------- exceptions

NoError == [type |-> "none", cols |-> << >>]

\* A raised exception: its class and the column names its message lists.
Raise(type, cols) == [type |-> type, cols |-> cols]

Ok(df) == [exc |-> NoError, df |-> df]

Fail(type, cols) == [exc |-> Raise(type, cols), df |-> EmptyFrame]

\* ------------------------------------------------------- pandas primitives

\* df.columns = df.columns.str.strip()
StripColumns(df) ==
  LET names == {StripName(h) : h \in df.cols}
      orig(c) == CHOOSE h \in df.cols : StripName(h) = c
  IN Frame(names, [c \in names |-> df.dt[orig(c)]],
           [i \in DOMAIN df.rows |-> [c \in names |-> df.rows[i][orig(c)]]])

\* df.dropna(subset=cols)
DropNa(df, subset) ==
  BoolIndex(df, [i \in DOMAIN df.rows |-> \A c \in subset : ~IsNull(df.rows[i][c])])

\* Series.str.strip() on an object column: the str cells stripped, NaN
\* elsewhere.
StrStrip(col) ==
  [i \in DOMAIN col |-> IF IsStr(col[i]) THEN Str(StripChars(col[i].s)) ELSE Null]

\* Series.str.lower()
StrLower(col) ==
  [i \in DOMAIN col |-> IF IsStr(col[i]) THEN Str(LowerChars(col[i].s)) ELSE Null]

\* Series.str.replace(c, '') for the one-character texts c of set.
StrRemove(col, set) ==
  [i \in DOMAIN col |-> IF IsStr(col[i]) THEN Str(RemoveChars(col[i].s, set)) ELSE Null]

\* Series.replace(pattern, '', regex=True): only str cells are rewritten.
RegexRemove(col, set) ==
  [i \in DOMAIN col |-> IF IsStr(col[i]) THEN Str(RemoveChars(col[i].s, set)) ELSE col[i]]

\* pd.to_numeric(x, errors='coerce') on one cell: surrounding blanks are
\* skipped, a number stays, anything else becomes NaN.
ToNumeric(cell) ==
  CASE IsNum(cell) -> cell
    [] IsStr(cell) ->
         IF IsNumberText(StripChars(cell.s)) THEN Num(NumberTextVal(StripChars(cell.s)))
         ELSE Null
    [] OTHER -> Null

ToNumericCol(col) == [i \in DOMAIN col |-> ToNumeric(col[i])]

\* pd.to_datetime(x, errors='coerce') on one cell: "YYYY-MM" or "YYYY-MM-DD".
ToDatetime(cell) ==
  CASE cell.k = "date" -> cell
    [] IsStr(cell) ->
         LET t == cell.s
         IN IF /\ Len(t) \in {7, 10}
               /\ AllDigits(SubSeq(t, 1, 4)) /\ t[5] = "-" /\ AllDigits(SubSeq(t, 6, 7))
               /\ DigitsVal(SubSeq(t, 6, 7)) \in 1..12
               /\ (Len(t) = 10 => t[8] = "-" /\ AllDigits(SubSeq(t, 9, 10)))
              THEN Date(DigitsVal(SubSeq(t, 1, 4)), DigitsVal(SubSeq(t, 6, 7)))
              ELSE Null
    [] OTHER -> Null

\* Series.dt.year
YearOf(cell) == IF cell.k = "date" THEN Num(cell.n \div 100) ELSE Null

\* Series.fillna(text)
FillNa(col, chars) == [i \in DOMAIN col |-> IF IsNull(col[i]) THEN Str(chars) ELSE col[i]]

\* Series.astype(str) on one cell
AsStr(cell) ==
  CASE IsStr(cell) -> cell
    [] IsNum(cell) -> Str(FloatChars(cell.n))
    [] IsNull(cell) -> Str(<< "n", "a", "n" >>)
    [] OTHER -> Str(<< "[", "]" >>)

\* [i.strip().lower() for i in x if i]
CleanTokens(items) ==
  LET kept == SelectSeq(items, LAMBDA t : t # << >>)
  IN [i \in DOMAIN kept |-> LowerChars(StripChars(kept[i]))]

\* ------------------------------------------------------- app.py: load_data

\* [col for col in required_columns if col not in df.columns]
MissingColumns(df) == SelectSeq(RequiredColumns, LAMBDA c : c \notin df.cols)

\* df['funding_total_usd'] > 0 on one cell (NaN > 0 is False)
Positive(cell) == IsNum(cell) /\ cell.n > 0

\* Series.fillna(''): an all-NaN float64 column with rows becomes object.
FillNaDtype(df, c) ==
  IF df.dt[c] = "object" \/ \E i \in DOMAIN df.rows : IsNull(df.rows[i][c])
    THEN "object" ELSE df.dt[c]

\* fillna(v).astype(str).str.strip() of lines 48-49
CleanLabel(col) ==
  LET filled == FillNa(col, Unknown)
  IN [i \in DOMAIN col |-> Str(StripChars(AsStr(filled[i]).s))]

\* Lines 46: fillna('').str.split('|').apply(lambda ...).  A cell that is not
\* a str splits to NaN, and the lambda then iterates a float: TypeError.
SplitCategories(df) ==
  LET filled == FillNa(Column(df, "category_list"), << >>)
      pieces == [i \in DOMAIN filled |->
                   IF IsStr(filled[i]) THEN List(SplitOn(filled[i].s, "|")) ELSE Null]
  IN IF FillNaDtype(df, "category_list") # "object"
       THEN Fail("AttributeError", << "category_list" >>)
     ELSE IF \E i \in DOMAIN pieces : IsNull(pieces[i])
       THEN Fail("TypeError", << "category_list" >>)
     ELSE Ok(SetColumn(df, "category_list", "object",
                       [i \in DOMAIN pieces |-> List(CleanTokens(pieces[i].l))]))

\* Lines 33-50 (and again 56-69): the cleaning applied to a parsed table.
AppClean(df0) ==
  LET df1 == StripColumns(df0)
  IN IF MissingColumns(df1) # << >> THEN Fail("ValueError", MissingColumns(df1))
     ELSE
       LET df2 == DropNa(df1, {"name", "funding_total_usd", "market"})
           df3 == SetColumn(df2, "funding_total_usd", "float64",
                            ToNumericCol(RegexRemove(Column(df2, "funding_total_usd"),
                                                     {"$", ","})))
           df4 == BoolIndex(df3, [i \in DOMAIN df3.rows |->
                                    Positive(df3.rows[i]["funding_total_usd"])])
       IN IF df4.dt["market"] # "object" THEN Fail("AttributeError", << "market" >>)
          ELSE
            LET df5 == SetColumn(df4, "market", "object",
                                 StrLower(StrStrip(Column(df4, "market"))))
            IN IF "category_list" \notin df5.cols THEN Fail("KeyError", << "category_list" >>)
               ELSE
                 LET r6 == SplitCategories(df5)
                 IN IF r6.exc # NoError THEN r6
                    ELSE
                      LET df7 == SetColumn(r6.df, "country_code", "object",
                                           CleanLabel(Column(r6.df, "country_code")))
                      IN Ok(SetColumn(df7, "status", "object",
                                      CleanLabel(Column(df7, "status"))))

\* The loop without its return: every encoding is attempted.
TryAllEncodings(file, i, tried) ==
  [decoded |-> \E e \in Range(Encodings) : file.decodes[e], tried |-> Encodings]

\* Lines 28-52: the encodings tried, in order, until one decodes.  The result
\* holds the encodings attempted so far in "tried".
RECURSIVE TryEncodings(_, _, _)
TryEncodings(file, i, tried) ==
  IF i > Len(Encodings)
    THEN [decoded |-> FALSE, tried |-> tried]
    ELSE IF file.decodes[Encodings[i]]
      THEN [decoded |-> TRUE, tried |-> Append(tried, Encodings[i])]
      ELSE TryEncodings(file, i + 1, Append(tried, Encodings[i]))

\* Lines 21-73: load_data of app.py.  Every exception is caught at line 71,
\* reported with st.error and answered with an empty DataFrame.
\*   df        the DataFrame returned
\*   error     the exception st.error reported, NoError when none
\*   tried     the encodings attempted, in order
\*   fallback  whether the errors='ignore' read of line 55 was attempted
AppLoadData(file) ==
  IF ~file.exists
    THEN [df |-> EmptyFrame, error |-> Raise("FileNotFoundError", << >>),
          tried |-> << >>, fallback |-> FALSE]
    ELSE
      LET loop == TryEncodings(file, 1, << >>)
      IN IF loop.decoded
           THEN LET r == AppClean(ReadCsv(file))
                IN [df |-> r.df, error |-> r.exc, tried |-> loop.tried, fallback |-> FALSE]
         \* Line 55: read_csv has no parameter "errors", so the fallback call
         \* raises TypeError before it reads anything and lines 56-69 never
         \* run.
         ELSE [df |-> EmptyFrame, error |-> Raise("TypeError", << "errors" >>),
               tried |-> loop.tried, fallback |-> TRUE]

\* ----------------------------------------------- vc_dashboard.py: load_data

\* Line 14: .str.replace(',', '').str.replace('"', '').str.strip()
VcFundingText(col) == StrStrip(StrRemove(StrRemove(col, {","}), {"\""}))

RECURSIVE VcDates(_, _)
\* Lines 19-20: pd.to_datetime over date_cols, in order.
VcDates(df, i) ==
  IF i > Len(DateCols) THEN Ok(df)
  ELSE IF DateCols[i] \notin df.cols THEN Fail("KeyError", << DateCols[i] >>)
  ELSE VcDates(SetColumn(df, DateCols[i], "datetime64",
                         [j \in DOMAIN df.rows |-> ToDatetime(df.rows[j][DateCols[i]])]),
               i + 1)

\* Lines 13-28: the cleaning applied to a parsed table.
VcClean(df0) ==
  IF "funding_total_usd" \notin df0.cols THEN Fail("KeyError", << "funding_total_usd" >>)
  ELSE IF df0.dt["funding_total_usd"] # "object"
    THEN Fail("AttributeError", << "funding_total_usd" >>)
  ELSE
    LET df1 == SetColumn(df0, "funding_total_usd", "float64",
                         ToNumericCol(VcFundingText(Column(df0, "funding_total_usd"))))
        r2 == VcDates(df1, 1)
    IN IF r2.exc # NoError THEN r2
       ELSE
         LET df3 == SetColumn(r2.df, "founded_year", "float64",
                              [j \in DOMAIN r2.df.rows |-> YearOf(r2.df.rows[j]["founded_at"])])
         IN IF "market" \notin df3.cols THEN Fail("KeyError", << "market" >>)
            ELSE IF df3.dt["market"] # "object" THEN Fail("AttributeError", << "market" >>)
            ELSE Ok(SetColumn(df3, "market", "object",
                              StrStrip(Column(df3, "market"))))

\* Lines 10-28: load_data of vc_dashboard.py.  Nothing is caught: an exception
\* leaves load_data and ends the script run.
VcLoadData(file) ==
  IF ~file.exists THEN Fail("FileNotFoundError", << >>)
  ELSE IF ~file.decodes["utf-8"] THEN Fail("UnicodeDecodeError", << >>)
  ELSE VcClean(ReadCsv(file))

\* ----------------------------------------------------------------- filters

\* Series.unique() of the str cells of a column, as a set of texts.
Texts(df, c) == {df.rows[i][c].s : i \in {j \in DOMAIN df.rows : IsStr(df.rows[j][c])}}

\* The numbers of a column (NaN left out).
Numbers(df, c) == {df.rows[i][c].n : i \in {j \in DOMAIN df.rows : IsNum(df.rows[j][c])}}

SetMin(S) == CHOOSE x \in S : \A y \in S : x <= y

SetMax(S) == CHOOSE x \in S : \A y \in S : x >= y

\* Series.isin(values): NaN is in no list.
IsIn(col, values) == [i \in DOMAIN col |-> IsStr(col[i]) /\ col[i].s \in values]

\* Series.between with inclusive="left": the upper bound left out.
BetweenLeft(col, lo, hi) == [i \in DOMAIN col |-> IsNum(col[i]) /\ lo <= col[i].n /\ col[i].n < hi]

\* Series.between(lo, hi): inclusive on both sides, False for NaN.
Between(col, lo, hi) == [i \in DOMAIN col |-> IsNum(col[i]) /\ lo <= col[i].n /\ col[i].n <= hi]

\* mask & mask
MaskAnd(a, b) == [i \in DOMAIN a |-> a[i] /\ b[i]]

\* app.py lines 108-113
AppFilter(df, c) ==
  BoolIndex(df,
    MaskAnd(MaskAnd(MaskAnd(IsIn(Column(df, "market"), c.markets),
                            IsIn(Column(df, "country_code"), c.countries)),
                    Between(Column(df, "funding_total_usd"), c.funding[1], c.funding[2])),
            IsIn(Column(df, "status"), c.statuses)))

\* The first entry of every selectbox of vc_dashboard.py.
AllChoice == << "A", "l", "l" >>

\* filtered_df[filtered_df[c] == text]: NaN equals nothing.
WhereEquals(df, c, text) ==
  BoolIndex(df, [i \in DOMAIN df.rows |-> IsStr(df.rows[i][c]) /\ df.rows[i][c].s = text])

\* vc_dashboard.py lines 63-73
VcFilter(df, c) ==
  LET f1 == IF c.market # AllChoice THEN WhereEquals(df, "market", c.market) ELSE df
      f2 == IF c.status # AllChoice THEN WhereEquals(f1, "status", c.status) ELSE f1
      f3 == IF c.country # AllChoice THEN WhereEquals(f2, "country_code", c.country) ELSE f2
  IN BoolIndex(f3,
       MaskAnd([i \in DOMAIN f3.rows |->
                  IsNum(f3.rows[i]["founded_year"]) /\ f3.rows[i]["founded_year"].n >= c.years[1]],
               [i \in DOMAIN f3.rows |->
                  IsNum(f3.rows[i]["founded_year"]) /\ f3.rows[i]["founded_year"].n <= c.years[2]]))

\* ------------------------------------------------------------- aggregation

RECURSIVE SumSkipNa(_)
\* Series.sum(): NaN counts as nothing, the empty sum is 0.
SumSkipNa(col) ==
  IF col = << >> THEN 0
  ELSE (IF IsNum(Head(col)) THEN Head(col).n ELSE 0) + SumSkipNa(Tail(col))

CountNotNa(col) == Cardinality({i \in DOMAIN col : IsNum(col[i])})

\* A mean or a median, kept exact as sum/count; NaN is count = 0.
Ratio(sum, count) == [sum |-> sum, count |-> count]

NaNRatio == Ratio(0, 0)

\* Series.mean()
MeanSkipNa(col) ==
  IF CountNotNa(col) = 0 THEN NaNRatio ELSE Ratio(SumSkipNa(col), CountNotNa(col))

\* The k-th smallest number of a column (1-based), NaN left out.
KthSmallest(col, k) ==
  LET idx == {i \in DOMAIN col : IsNum(col[i])}
      rank(i) == Cardinality({j \in idx : col[j].n < col[i].n \/ (col[j].n = col[i].n /\ j < i)}) + 1
  IN col[CHOOSE i \in idx : rank(i) = k].n

\* Series.median()
MedianSkipNa(col) ==
  LET n == CountNotNa(col)
  IN IF n = 0 THEN NaNRatio
     ELSE IF n % 2 = 1 THEN Ratio(KthSmallest(col, (n + 1) \div 2), 1)
     ELSE Ratio(KthSmallest(col, n \div 2) + KthSmallest(col, n \div 2 + 1), 2)

\* The rows of one group.  groupby leaves out the rows whose key is NaN
\* (dropna=True is the default).
\* keys holds each row's key: << k >>, or << >> for a NaN key.
GroupRows(rows, keys, key) == Take(rows, [i \in DOMAIN rows |-> keys[i] = << key >>])

\* The key of a row under df.groupby(c): << text >>, or << >> for a NaN key.
TextKey(r, c) == IF IsStr(r[c]) THEN << r[c].s >> ELSE << >>

\* The keys of the rows under df.groupby(c).
KeysBy(rows, c) == [i \in DOMAIN rows |-> TextKey(rows[i], c)]

GroupKeys(keys) == {keys[i][1] : i \in {j \in DOMAIN keys : keys[j] # << >>}}

ValuesOf(rows, c) == [i \in DOMAIN rows |-> rows[i][c]]

\* df.groupby(key)[value].sum(): a mapping from the keys to the sums.
GroupSum(rows, keys, value) ==
  [k \in GroupKeys(keys) |-> SumSkipNa(ValuesOf(GroupRows(rows, keys, k), value))]

\* df.groupby(key)[value].mean()
GroupMean(rows, keys, value) ==
  [k \in GroupKeys(keys) |-> MeanSkipNa(ValuesOf(GroupRows(rows, keys, k), value))]

\* Series.value_counts(): NaN is not counted.
ValueCounts(rows, c) ==
  [k \in GroupKeys(KeysBy(rows, c)) |-> Len(GroupRows(rows, KeysBy(rows, c), k))]

\* .sort_values(ascending=False).head(n) of a mapping with whole-number
\* values: the n entries with the largest values (all of them when there are
\* at most n).
TopSums(m, n) ==
  IF Cardinality(DOMAIN m) <= n THEN m
  ELSE LET keep == CHOOSE K \in SUBSET DOMAIN m :
                     /\ Cardinality(K) = n
                     /\ \A a \in K, b \in DOMAIN m \ K : m[a] >= m[b]
       IN [k \in keep |-> m[k]]

\* Whether mean a is below mean b (NaN sorts last).
RatioLess(a, b) ==
  IF a.count = 0 THEN FALSE
  ELSE IF b.count = 0 THEN TRUE
  ELSE a.sum * b.count < b.sum * a.count

\* The same for a mapping of means.
TopMeans(m, n) ==
  IF Cardinality(DOMAIN m) <= n THEN m
  ELSE LET keep == CHOOSE K \in SUBSET DOMAIN m :
                     /\ Cardinality(K) = n
                     /\ \A a \in K, b \in DOMAIN m \ K : ~RatioLess(m[a], m[b])
       IN [k \in keep |-> m[k]]

\* How many entries the top-N charts keep.
TopN == 10

\* app.py lines 118-175: the eight aggregations, in the order of the script.
AppCharts(f) ==
  [market_funding |->
     TopSums(GroupSum(f.rows, KeysBy(f.rows, "market"), "funding_total_usd"), TopN),
   country_counts |-> TopSums(ValueCounts(f.rows, "country_code"), TopN),
   status_funding |->
     GroupSum(f.rows, KeysBy(f.rows, "status"), "funding_total_usd"),
   region_funding |->
     TopSums(GroupSum(f.rows, KeysBy(f.rows, "region"), "funding_total_usd"), TopN),
   top_startups |->
     TopSums(GroupSum(f.rows, KeysBy(f.rows, "name"), "funding_total_usd"), TopN),
   market_dist |->
     TopSums(GroupSum(f.rows, KeysBy(f.rows, "market"), "funding_total_usd"), TopN),
   avg_market_funding |->
     TopMeans(GroupMean(f.rows, KeysBy(f.rows, "market"), "funding_total_usd"), TopN),
   status_counts |-> ValueCounts(f.rows, "status")]

\* Two digits of a month or day.
TwoDigits(v) == << DigitChars[(v \div 10) + 1], DigitChars[(v % 10) + 1] >>

\* Series.dt.to_period('Q').astype(str) on one cell: "2010Q1", "NaT" for NaT.
QuarterText(cell) ==
  IF cell.k = "date"
    THEN Str(NatChars(cell.n \div 100) \o << "Q" >> \o NatChars((((cell.n % 100) - 1) \div 3) + 1))
    ELSE Str(<< "N", "a", "T" >>)

\* The key of a row under groupby(filtered_df['founded_at'].dt.year).
YearKey(r) == IF r["founded_at"].k = "date" THEN << r["founded_at"].n \div 100 >> ELSE << >>

\* Rows ordered by a number column, stably; NaN rows left out.
SortedBy(rows, c, descending) ==
  LET idx == {i \in DOMAIN rows : IsNum(rows[i][c])}
      before(j, i) ==
        \/ (IF descending THEN rows[j][c].n > rows[i][c].n ELSE rows[j][c].n < rows[i][c].n)
        \/ (rows[j][c].n = rows[i][c].n /\ j < i)
      rank(i) == Cardinality({j \in idx : before(j, i)}) + 1
  IN [k \in 1..Cardinality(idx) |-> rows[CHOOSE i \in idx : rank(i) = k]]

FirstN(seq, n) == SubSeq(seq, 1, IF Len(seq) < n THEN Len(seq) ELSE n)

\* vc_dashboard.py lines 167-168: nlargest(10, ...)[[...]].sort_values(...)
TopCompanies(f) ==
  LET cols == {"name", "market", "country_code", "funding_total_usd"}
      top == FirstN(SortedBy(f.rows, "funding_total_usd", TRUE), TopN)
  IN SortedBy([i \in DOMAIN top |-> Restrict(top[i], cols)], "funding_total_usd", FALSE)

\* vc_dashboard.py line 114: the column the Quarter view adds to filtered_df.
WithQuarter(f) ==
  SetColumn(f, "founded_quarter", "object",
            [i \in DOMAIN f.rows |-> QuarterText(f.rows[i]["founded_at"])])

\* vc_dashboard.py lines 104-116
FundingOverTime(f, time_group) ==
  IF time_group = "Year"
    THEN GroupSum(f.rows, [i \in DOMAIN f.rows |-> YearKey(f.rows[i])], "funding_total_usd")
    ELSE GroupSum(WithQuarter(f).rows, KeysBy(WithQuarter(f).rows, "founded_quarter"),
                  "funding_total_usd")

\* vc_dashboard.py lines 78-81
KeyMetrics(f) ==
  [companies |-> Len(f.rows),
   total |-> SumSkipNa(Column(f, "funding_total_usd")),
   mean |-> MeanSkipNa(Column(f, "funding_total_usd")),
   median |-> MedianSkipNa(Column(f, "funding_total_usd"))]

\* The round-type totals with the all-zero-row case dropped: only the types
\* some row has an amount for.
RoundFundingOfRows(f) ==
  [t \in {u \in Range(RoundTypes) : \E i \in DOMAIN f.rows : IsNum(f.rows[i][u])} |->
     SumSkipNa(Column(f, t))]

\* vc_dashboard.py line 154: filtered_df[round_types].sum()
RoundFunding(f) == [t \in Range(RoundTypes) |-> SumSkipNa(Column(f, t))]

\* vc_dashboard.py lines 75-178: the aggregations, in the order of the
\* script.  top_companies needs the name column: without it line 167 raises
\* KeyError after everything before it has been computed and drawn.
VcCharts(f, time_group) ==
  [metrics |-> KeyMetrics(f),
   market_funding |->
     TopSums(GroupSum(f.rows, KeysBy(f.rows, "market"), "funding_total_usd"), TopN),
   funding_over_time |-> FundingOverTime(f, time_group),
   status_counts |-> ValueCounts(f.rows, "status"),
   country_funding |->
     TopSums(GroupSum(f.rows, KeysBy(f.rows, "country_code"), "funding_total_usd"), TopN),
   round_funding |-> RoundFunding(f),
   top_companies |-> IF "name" \in f.cols THEN TopCompanies(f) ELSE << >>]

\* ------------------------------------------------------------------ export

\* One cell as DataFrame.to_csv writes it: nothing for NaN/NaT, a float with
\* its ".0", a Timestamp as YYYY-MM-DD.  (An int64 column is written without
\* the ".0"; read_csv reads both spellings as numbers.)
CsvCell(cell) ==
  CASE IsNull(cell) -> Null
    [] IsStr(cell) -> cell
    [] IsNum(cell) -> Str(FloatChars(cell.n))
    [] cell.k = "date" ->
         Str(NatChars(cell.n \div 100) \o << "-" >> \o TwoDigits(cell.n % 100) \o << "-", "0", "1" >>)
    [] OTHER -> Str(<< "[", "]" >>)

\* vc_dashboard.py line 187: filtered_df.to_csv(index=False).encode('utf-8'),
\* as the file it is when saved: UTF-8 text, the frame's columns as header.
ToCsv(f) ==
  File(TRUE, AllDecode, f.cols,
       [i \in DOMAIN f.rows |-> [c \in f.cols |-> CsvCell(f.rows[i][c])]])

\* ------------------------------------------------------------------- state

VARIABLES
  prog,      \* "app" (app.py) or "vc" (vc_dashboard.py)
  file,      \* investments_VC.csv
  cache,     \* the st.cache_data memo of load_data: [hit, value]
  loads,     \* how often the body of load_data ran in this process
  reloads,   \* how often the export replaced the file
  origin,    \* the filtered frame whose export the file now is (history)
  pc,        \* where the current script run is
  df,        \* the module-level df of the run
  shown,     \* the error messages the run has put on the page, in order
  criteria,  \* the widget values of the run
  filtered,  \* filtered_df
  charts,    \* the aggregation results of the run
  export,    \* the data of the download button
  steps,     \* the steps the run has executed, in order
  norm       \* the cleaning applied once and twice to a parsed table

vars ==
  << prog, file, cache, loads, reloads, origin, pc, df, shown, criteria, filtered,
     charts, export, steps, norm >>

session == << prog, file, cache, loads, reloads, origin >>

run == << pc, df, shown, criteria, filtered, charts, export, steps >>

NoCache == [hit |-> FALSE, value |-> [df |-> EmptyFrame, error |-> NoError,
                                     tried |-> << >>, fallback |-> FALSE]]

NoCriteria == [unset |-> TRUE]

NoCharts == [unset |-> TRUE]

NoExport == File(FALSE, AllDecode, {}, << >>)

NoNorm == [applied |-> 0, once |-> Ok(EmptyFrame), twice |-> Ok(EmptyFrame)]

\* A script run starts with nothing computed.
FreshRun ==
  /\ pc = "load"
  /\ df = EmptyFrame
  /\ shown = << >>
  /\ criteria = NoCriteria
  /\ filtered = EmptyFrame
  /\ charts = NoCharts
  /\ export = NoExport
  /\ steps = << >>

Init ==
  /\ prog \in {"app", "vc"}
  /\ file \in FileInputs
  /\ cache = NoCache
  /\ loads = 0
  /\ reloads = 0
  /\ origin = EmptyFrame
  /\ FreshRun
  /\ norm = NoNorm

\* --------------------------------------------------------------- load step

\* load_data without a memo: the body runs on every call.
NeverMemoized(c) == FALSE

\* st.cache_data: a stored return value is handed out instead of running the
\* body.
Memoized(c) == c.hit

\* What the "No data loaded" markdown of app.py lines 78-95 puts on the page.
NoDataLoaded == Raise("No data loaded", << >>)

\* app.py lines 75-96: df = load_data(); an empty df ends the run (st.stop).
\* load_data catches everything, so it always returns and is always memoized;
\* st.error inside it is replayed on a cache hit.
AppLoad ==
  /\ prog = "app" /\ pc = "load"
  /\ LET r == IF Memoized(cache) THEN cache.value ELSE AppLoadData(file)
     IN /\ cache' = [hit |-> TRUE, value |-> r]
        /\ loads' = IF Memoized(cache) THEN loads ELSE loads + 1
        /\ df' = r.df
        /\ shown' = (IF r.error # NoError THEN << r.error >> ELSE << >>)
                      \o (IF IsEmpty(r.df) THEN << NoDataLoaded >> ELSE << >>)
        /\ pc' = IF IsEmpty(r.df) THEN "stopped" ELSE "sidebar"
  /\ steps' = Append(steps, "load")
  /\ UNCHANGED << prog, file, reloads, origin, criteria, filtered, charts, export, norm >>

\* vc_dashboard.py line 30: df = load_data().  An exception is not memoized;
\* it ends the run and Streamlit shows it on the page.
VcLoad ==
  /\ prog = "vc" /\ pc = "load"
  /\ LET r == IF Memoized(cache) THEN Ok(cache.value.df) ELSE VcLoadData(file)
     IN /\ cache' = IF r.exc = NoError
                      THEN [hit |-> TRUE,
                            value |-> [df |-> r.df, error |-> NoError,
                                       tried |-> << "utf-8" >>, fallback |-> FALSE]]
                      ELSE cache
        /\ loads' = IF Memoized(cache) THEN loads ELSE loads + 1
        /\ df' = r.df
        /\ shown' = IF r.exc # NoError THEN << r.exc >> ELSE << >>
        /\ pc' = IF r.exc # NoError THEN "crashed" ELSE "sidebar"
  /\ steps' = Append(steps, "load")
  /\ UNCHANGED << prog, file, reloads, origin, criteria, filtered, charts, export, norm >>

\* ------------------------------------------------------------- filter step

\* app.py line 101: default=['USA', 'CHN', 'GBR']
DefaultCountries == {USA, CHN, GBR}

\* The funding values the slider of line 104 is moved to: the amounts of the
\* data and max_funding/10, the default upper end.
FundingChoices(d) ==
  Numbers(d, "funding_total_usd") \cup {SetMax(Numbers(d, "funding_total_usd")) \div 10}

\* app.py lines 99-113: the sidebar widgets and the filter.  st.multiselect
\* raises StreamlitAPIException when a default is not among the options; a
\* multiselect returns any sub-list of its options, the slider any lo <= hi.
AppSidebar ==
  /\ prog = "app" /\ pc = "sidebar"
  /\ IF ~(DefaultCountries \subseteq Texts(df, "country_code"))
       THEN /\ pc' = "crashed"
            /\ shown' = Append(shown, Raise("StreamlitAPIException", << "country_code" >>))
            /\ UNCHANGED << criteria, filtered, steps >>
       ELSE \E markets \in SUBSET Texts(df, "market"),
               countries \in SUBSET Texts(df, "country_code"),
               statuses \in SUBSET Texts(df, "status"),
               lo \in FundingChoices(df), hi \in FundingChoices(df) :
              /\ lo <= hi
              /\ criteria' = [markets |-> markets, countries |-> countries,
                              funding |-> << lo, hi >>, statuses |-> statuses]
              /\ filtered' = AppFilter(df, criteria')
              /\ steps' = Append(steps, "filter")
              /\ pc' = "charts"
              /\ UNCHANGED shown
  /\ UNCHANGED << session, df, charts, export, norm >>

\* What the sidebar of vc_dashboard.py raises before any widget value is
\* read: KeyError for a missing status or country_code column (lines 47, 51),
\* ValueError for int(NaN) when no row has a founded_year (line 55).
VcSidebarError(d) ==
  IF "status" \notin d.cols THEN Raise("KeyError", << "status" >>)
  ELSE IF "country_code" \notin d.cols THEN Raise("KeyError", << "country_code" >>)
  ELSE IF Numbers(d, "founded_year") = {} THEN Raise("ValueError", << "founded_year" >>)
  ELSE NoError

\* vc_dashboard.py lines 39-73: the sidebar widgets and the filter.  A
\* selectbox returns one of its options, the slider any min <= lo <= hi <= max.
VcSidebar ==
  /\ prog = "vc" /\ pc = "sidebar"
  /\ IF VcSidebarError(df) # NoError
       THEN /\ pc' = "crashed"
            /\ shown' = Append(shown, VcSidebarError(df))
            /\ UNCHANGED << criteria, filtered, steps >>
       ELSE LET years == SetMin(Numbers(df, "founded_year"))..SetMax(Numbers(df, "founded_year"))
            IN \E market \in {AllChoice} \cup Texts(df, "market"),
                  status \in {AllChoice} \cup Texts(df, "status"),
                  country \in {AllChoice} \cup Texts(df, "country_code"),
                  lo \in years, hi \in years :
                 /\ lo <= hi
                 /\ criteria' = [market |-> market, status |-> status, country |-> country,
                                 years |-> << lo, hi >>, time_group |-> "Year"]
                 /\ filtered' = VcFilter(df, criteria')
                 /\ steps' = Append(steps, "filter")
                 /\ pc' = "charts"
                 /\ UNCHANGED shown
  /\ UNCHANGED << session, df, charts, export, norm >>

\* ------------------------------------------------------------- charts step

\* app.py lines 115-179: the eight charts; the run ends.
AppAggregate ==
  /\ prog = "app" /\ pc = "charts"
  /\ charts' = AppCharts(filtered)
  /\ steps' = Append(steps, "charts")
  /\ pc' = "done"
  /\ UNCHANGED << session, df, shown, criteria, filtered, export, norm >>

\* vc_dashboard.py lines 75-190: metrics and charts under the radio's value,
\* then the data of the download button.  The Quarter view writes the
\* founded_quarter column into filtered_df (line 114).
VcAggregate ==
  /\ prog = "vc" /\ pc = "charts"
  /\ \E time_group \in {"Year", "Quarter"} :
       LET f == IF time_group = "Quarter" THEN WithQuarter(filtered) ELSE filtered
       IN /\ criteria' = [criteria EXCEPT !.time_group = time_group]
          /\ filtered' = f
          /\ charts' = VcCharts(f, time_group)
          /\ IF "name" \in f.cols
               THEN /\ export' = ToCsv(f)
                    /\ steps' = steps \o << "charts", "export" >>
                    /\ pc' = "done"
                    /\ UNCHANGED shown
               ELSE /\ shown' = Append(shown, Raise("KeyError", << "name" >>))
                    /\ steps' = Append(steps, "charts")
                    /\ pc' = "crashed"
                    /\ UNCHANGED export
  /\ UNCHANGED << session, df, norm >>

\* ------------------------------------------------------------ interactions

\* The user changes a widget or reruns the page: the script runs again from
\* the top with nothing carried over but the memo.
Rerun ==
  /\ pc \in {"done", "stopped", "crashed"}
  /\ Memoized(cache) \/ loads < MaxLoads
  /\ pc' = "load"
  /\ df' = EmptyFrame
  /\ shown' = << >>
  /\ criteria' = NoCriteria
  /\ filtered' = EmptyFrame
  /\ charts' = NoCharts
  /\ export' = NoExport
  /\ steps' = << >>
  /\ UNCHANGED << session, norm >>

\* The user saves the download as investments_VC.csv and starts the
\* dashboard again: a new process with an empty memo.
ReplaceFile ==
  /\ prog = "vc" /\ pc = "done" /\ reloads < MaxReloads
  /\ file' = export
  /\ origin' = filtered
  /\ reloads' = reloads + 1
  /\ cache' = NoCache
  /\ loads' = 0
  /\ pc' = "load"
  /\ df' = EmptyFrame
  /\ shown' = << >>
  /\ criteria' = NoCriteria
  /\ filtered' = EmptyFrame
  /\ charts' = NoCharts
  /\ export' = NoExport
  /\ steps' = << >>
  /\ UNCHANGED << prog, norm >>

Next ==
  \/ AppLoad
  \/ VcLoad
  \/ AppSidebar
  \/ VcSidebar
  \/ AppAggregate
  \/ VcAggregate
  \/ Rerun
  \/ ReplaceFile

Spec == Init /\ [][Next]_vars

\* ------------------------------------------- the cleaning as a function

\* The cleaning steps of load_data on a table already in memory.
Normalize(p, d) == IF p = "app" THEN AppClean(d) ELSE VcClean(d)

\* The cleaning applied to the parsed file.
NormalizeOnce ==
  /\ norm.applied = 0
  /\ file.exists /\ file.decodes["utf-8"]
  /\ norm' = [applied |-> 1, once |-> Normalize(prog, ReadCsv(file)), twice |-> Ok(EmptyFrame)]
  /\ UNCHANGED << session, run >>

\* The cleaning applied to its own result.
NormalizeAgain ==
  /\ norm.applied = 1
  /\ norm.once.exc = NoError
  /\ norm' = [norm EXCEPT !.applied = 2, !.twice = Normalize(prog, norm.once.df)]
  /\ UNCHANGED << session, run >>

NextNormalize ==
  \/ NormalizeOnce
  \/ NormalizeAgain

SpecNormalize == Init /\ [][NextNormalize]_vars

\* ================================================================== claims

\* The filter predicate of app.py: all four dimensions, each by membership
\* or inclusive range.
AppSatisfies(r, c) ==
  /\ IsStr(r["market"]) /\ r["market"].s \in c.markets
  /\ IsStr(r["country_code"]) /\ r["country_code"].s \in c.countries
  /\ IsNum(r["funding_total_usd"])
  /\ c.funding[1] <= r["funding_total_usd"].n /\ r["funding_total_usd"].n <= c.funding[2]
  /\ IsStr(r["status"]) /\ r["status"].s \in c.statuses

\* The filter predicate of vc_dashboard.py: equality for every selectbox that
\* is not on 'All', and the inclusive year range.
VcSatisfies(r, c) ==
  /\ c.market # AllChoice => (IsStr(r["market"]) /\ r["market"].s = c.market)
  /\ c.status # AllChoice => (IsStr(r["status"]) /\ r["status"].s = c.status)
  /\ c.country # AllChoice => (IsStr(r["country_code"]) /\ r["country_code"].s = c.country)
  /\ IsNum(r["founded_year"])
  /\ c.years[1] <= r["founded_year"].n /\ r["founded_year"].n <= c.years[2]

\* C1: right after the filter step, filtered_df holds exactly the rows of df
\* that satisfy the conjunction of the present predicates (membership or
\* equality for market, country_code and status, both bounds inclusive for
\* the range), in their original order and with df's columns.
C1_FilterIsConjunction ==
  pc = "charts" =>
    /\ filtered.cols = df.cols
    /\ filtered.rows =
         SelectSeq(df.rows,
                   LAMBDA r : IF prog = "app" THEN AppSatisfies(r, criteria)
                              ELSE VcSatisfies(r, criteria))

\* C1 witness: app.py kept a row whose funding is exactly the upper bound of
\* the slider and dropped a row above it.
C1_Witness ==
  /\ prog = "app" /\ pc = "charts"
  /\ \E i \in DOMAIN filtered.rows :
       filtered.rows[i]["funding_total_usd"].n = criteria.funding[2]
  /\ \E i \in DOMAIN df.rows : df.rows[i]["funding_total_usd"].n > criteria.funding[2]

\* The rows app.py would keep if an empty multiselect constrained nothing.
AppPresentOnly(r, c) ==
  /\ c.markets # {} => (IsStr(r["market"]) /\ r["market"].s \in c.markets)
  /\ c.countries # {} => (IsStr(r["country_code"]) /\ r["country_code"].s \in c.countries)
  /\ c.statuses # {} => (IsStr(r["status"]) /\ r["status"].s \in c.statuses)
  /\ IsNum(r["funding_total_usd"])
  /\ c.funding[1] <= r["funding_total_usd"].n /\ r["funding_total_usd"].n <= c.funding[2]

\* vc_dashboard.py with every selectbox on 'All' and the slider on its full
\* range.
VcUnconstrained(d, c) ==
  /\ c.market = AllChoice /\ c.status = AllChoice /\ c.country = AllChoice
  /\ c.years = << SetMin(Numbers(d, "founded_year")), SetMax(Numbers(d, "founded_year")) >>

\* C2: an absent criterion matches all rows.  In vc_dashboard.py the
\* unconstrained filter returns df itself; in app.py a multiselect with
\* nothing selected excludes no row.
C2_AbsentMatchesAll ==
  pc = "charts" =>
    IF prog = "vc"
      THEN VcUnconstrained(df, criteria) => filtered.rows = df.rows
      ELSE filtered.rows = SelectSeq(df.rows, LAMBDA r : AppPresentOnly(r, criteria))

\* C3: every Record of the Dataset load_data returned has a name, a funding
\* total above 0 and a market, and its country_code and status are strings.
C3_CleanRecords ==
  cache.hit =>
    \A i \in DOMAIN cache.value.df.rows :
      LET r == cache.value.df.rows[i]
      IN /\ Range(RequiredColumns) \subseteq cache.value.df.cols
         /\ ~IsNull(r["name"])
         /\ IsNum(r["funding_total_usd"]) /\ r["funding_total_usd"].n > 0
         /\ ~IsNull(r["market"])
         /\ IsStr(r["country_code"])
         /\ IsStr(r["status"])

RECURSIVE SumOver(_, _)
\* The sum of a mapping's values over the keys in K.
SumOver(m, K) ==
  IF K = {} THEN 0
  ELSE LET k == CHOOSE x \in K : TRUE IN m[k] + SumOver(m, K \ {k})

MapSum(m) == SumOver(m, DOMAIN m)

\* C4: the group sums of every group-by-sum chart add up to the funding of
\* the filtered Dataset.  (The charts are drawn from at most MaxRows groups,
\* so head(10) leaves nothing out.)
C4_GroupSumsPartition ==
  pc = "done" =>
    LET total == SumSkipNa(Column(filtered, "funding_total_usd"))
    IN IF prog = "app"
         THEN /\ MapSum(charts.market_funding) = total
              /\ MapSum(charts.status_funding) = total
              /\ MapSum(charts.region_funding) = total
              /\ MapSum(charts.top_startups) = total
         ELSE /\ MapSum(charts.market_funding) = total
              /\ MapSum(charts.country_funding) = total

\* The charts step has run in this script run.
ChartsRan == \E i \in DOMAIN steps : steps[i] = "charts"

\* Every grouped result of the run is empty.
GroupedResultsEmpty ==
  IF prog = "app"
    THEN \A name \in DOMAIN charts : DOMAIN charts[name] = {}
    ELSE /\ DOMAIN charts.market_funding = {}
         /\ DOMAIN charts.funding_over_time = {}
         /\ DOMAIN charts.status_counts = {}
         /\ DOMAIN charts.country_funding = {}
         /\ charts.top_companies = << >>

\* C5 as stated, for files that have the name column: with zero rows after
\* the filter the run finishes and every aggregation result, the round-type
\* totals included, is empty.
C5_EveryResultEmpty ==
  (ChartsRan /\ filtered.rows = << >> /\ "name" \in df.cols) =>
    /\ pc = "done"
    /\ GroupedResultsEmpty
    /\ prog = "vc" => DOMAIN charts.round_funding = {}

\* C5 amended: with zero rows after the filter, every group sum, group mean,
\* value count and top-10 ranking is empty; the key metrics of
\* vc_dashboard.py are 0 companies, total 0, mean NaN and median NaN, and its
\* round-type totals hold one 0 per round type.  Nothing raises on account of
\* the empty subset: the run ends in an error only at line 167 of
\* vc_dashboard.py, when the file has no name column.
C5_EmptySubset ==
  (ChartsRan /\ filtered.rows = << >>) =>
    /\ GroupedResultsEmpty
    /\ prog = "vc" =>
         /\ charts.metrics = [companies |-> 0, total |-> 0, mean |-> NaNRatio,
                              median |-> NaNRatio]
         /\ charts.round_funding = [t \in Range(RoundTypes) |-> 0]
    /\ pc \in {"done", "crashed"}
    /\ pc = "crashed" => (prog = "vc" /\ "name" \notin df.cols)

\* C5 witness: vc_dashboard.py finished a run whose filter left no row of a
\* Dataset that has rows.
C5_Witness ==
  /\ prog = "vc" /\ pc = "done"
  /\ filtered.rows = << >>
  /\ df.rows # << >>

\* C6: for a table the cleaning accepts, cleaning its result again succeeds
\* and returns the same table.
C6_Idempotent ==
  norm.applied = 2 => (norm.twice.exc = NoError /\ norm.twice.df = norm.once.df)

\* The required columns the header lacks once its names are stripped.
MissingRequired == {c \in Range(RequiredColumns) : c \notin {StripName(h) : h \in file.cols}}

\* No encoding the script reads the file with decodes it.
NoEncodingParses ==
  IF prog = "app"
    THEN \A e \in Range(Encodings) : ~file.decodes[e]
    ELSE ~file.decodes["utf-8"]

\* C7: a missing file, an undecodable file and a missing required column each
\* end the load with a message on the page (naming the missing columns in the
\* schema case), and the run executes no filter and no aggregation step.
C7_FatalLoadErrorsHalt ==
  (steps # << >> /\ (~file.exists \/ NoEncodingParses \/ MissingRequired # {})) =>
    /\ pc \in {"stopped", "crashed"}
    /\ steps = << "load" >>
    /\ shown # << >>
    /\ (file.exists /\ ~NoEncodingParses) =>
         \E k \in DOMAIN shown : Range(shown[k].cols) = MissingRequired

\* C8 amended: within one process session, once a call of load_data has
\* returned its body never runs again and the memoized Dataset never changes:
\* every later run filters the memoized rows under its own criteria and
\* computes its charts from that filter result alone.  app.py's load_data
\* always returns, so its body runs at most once; vc_dashboard.py's load_data
\* memoizes nothing when it raises, and the next run executes the body again.
C8_MemoizedOnceReturned ==
  [][
    /\ (cache.hit /\ reloads' = reloads) => (cache' = cache /\ loads' = loads)
    /\ prog = "app" => loads' <= 1
    /\ pc' = "charts" =>
         /\ df' = cache'.value.df
         /\ filtered' = IF prog = "app" THEN AppFilter(cache'.value.df, criteria')
                        ELSE VcFilter(cache'.value.df, criteria')
    /\ pc' = "done" =>
         charts' = IF prog = "app" THEN AppCharts(filtered')
                   ELSE VcCharts(filtered', criteria'.time_group)
  ]_vars

\* C8 as stated: the body of load_data runs at most once per process session.
C8_BodyRunsAtMostOnce == loads <= 1

\* C8 witness: a later run starts with the Dataset of an earlier one memoized.
C8_Witness ==
  /\ pc = "load" /\ cache.hit /\ loads = 1
  /\ cache.value.df.rows # << >>

\* C9: after the export of a filtered Dataset has replaced the file, the load
\* succeeds and returns as many rows as were exported, with the same
\* funding_total_usd in each.
C9_RoundTrip ==
  (reloads >= 1 /\ steps # << >>) =>
    /\ cache.hit
    /\ Len(cache.value.df.rows) = Len(origin.rows)
    /\ \A i \in DOMAIN origin.rows :
         cache.value.df.rows[i]["funding_total_usd"] = origin.rows[i]["funding_total_usd"]

====
